---- MODULE Spec2Model ----
(***************************************************************************)
(* Model of the OAuth2/OIDC loop-back login flow of jlewi/monogo:          *)
(*   - oauthutil.OIDCHandlers / oauthutil.OAuthHandlers (HandleAuthCode),  *)
(*   - oauthutil.OIDCWebFlowServer and gcp.WebFlowHelper (Run, the         *)
(*     background server, the callback handler, the completion channel),   *)
(*   - oauthutil.IDTokenSource (Token, IDToken, getToken).                 *)
(***************************************************************************)
EXTENDS Integers, Sequences, FiniteSets, TLC

(***************************************************************************)
(* Bounds of the model.                                                    *)
(***************************************************************************)
\* Largest clock value; identity tokens expire at 1..MaxTime.
MaxTime == 2
\* Callback requests the environment issues in one flow with arbitrary traffic.
MaxCallbacks == 3
\* Callback requests beyond the channel capacity in a flow where the browser
\* keeps retrying one and the same callback request.
BurstExtra == 2
\* Failed health polls of waitForReady that are told apart.
MaxPolls == 2
\* calls made on the token cache and its decorator in one run
MaxCacheOps == 3
\* requests the proxy receives in one run
MaxRequests == 4
\* the longest string asked of RandString
MaxLength == 24
\* keys in the backends annotation of an ingress
MaxKeys == 3
\* errors wrapped one in another
MaxChain == 3
\* backend services in the project, and backends of one backend service
MaxServices == 2
MaxBackends == 2

(***************************************************************************)
(* Program constants.                                                      *)
(***************************************************************************)
\* make(chan tokenSourceOrError, 10)
ChanCap == 10
\* http.StatusBadRequest, http.StatusInternalServerError; http.StatusOK is what
\* the server answers when the handler wrote no error
StatusBadRequest == 400
StatusInternalServerError == 500
StatusOK == 200
StatusFound == 302
\* helpers.RandString(24) of oidcEnsureAuth
SidLength == 24

(***************************************************************************)
(* Values.                                                                 *)
(***************************************************************************)
Modes == {"oidc", "oauth"}
States == {"s1", "s2"}
Nonces == {"n1", "n2"}
\* a cookie the request does not carry (r.Cookie returns http.ErrNoCookie)
Absent == "<absent>"
\* the value of a query parameter the request does not carry
EmptyStr == ""
NilErr == "nil"
Times == 0 .. MaxTime

\* A raw id_token: whether signature, issuer and audience are the ones the
\* verifier is configured for, its expiry and its nonce claim.
RawIDTokens == [present : {TRUE}, sig : BOOLEAN, exp : 1 .. MaxTime, nonce : Nonces]
NoIDToken == [present |-> FALSE]
\* oauth2.Token as issued by the token endpoint: the opaque access token and the
\* id_token extra field (absent, or a raw id token).
AccessTokens == {"at1", "at2"}
OAuth2Tokens == [access : AccessTokens, idtok : {NoIDToken} \cup RawIDTokens]

\* The callback request: the cookies and the query parameters HandleAuthCode reads.
Requests ==
  [stateCookie : States \cup {Absent},
   stateParam  : States \cup {EmptyStr},
   nonceCookie : Nonces \cup {Absent}]

\* What config.Exchange answers for the request's code: an error or a token.
ExchangeFailed == [err |-> TRUE]
ExchangeResults == {ExchangeFailed} \cup [err : {FALSE}, tok : OAuth2Tokens]

NilTS == [kind |-> "nil"]

(***************************************************************************)
(* oidc.IDTokenVerifier.Verify: signature, issuer, audience and expiry.    *)
(***************************************************************************)
Verify(raw, now) == raw.sig /\ now < raw.exp

(***************************************************************************)
(* HandleAuthCode of OIDCHandlers (mode "oidc") and of OAuthHandlers       *)
(* (mode "oauth").  The result records the three return values, the HTTP   *)
(* status written to the response and whether Exchange was called.         *)
(***************************************************************************)
Result(state, ts, err, status, exchanged) ==
  [state |-> state, ts |-> ts, err |-> err, status |-> status, exchanged |-> exchanged]

\* err of `stateCookie, err := r.Cookie("state")`
CookieErr(req) == IF req.stateCookie = Absent THEN "ErrNoCookie" ELSE NilErr

StateMatchesAlways(req) == TRUE

\* actual == state, once the cookie was found
StateMatches(req) == req.stateParam = req.stateCookie

NonceMatchesAlways(req, raw) == TRUE

NonceMatchesStateCookie(req, raw) == raw.nonce = req.stateCookie

\* idToken.Nonce == nonce.Value
NonceMatches(req, raw) == raw.nonce = req.nonceCookie

\* the part of OIDCHandlers.HandleAuthCode after the exchange
OIDCVerifyToken(req, tok, now) ==
  LET state == req.stateCookie
      idTS  == [kind |-> "IDTokenSource", tok |-> tok]
  IN  IF ~tok.idtok.present
        THEN Result(state, NilTS, "Failed to obtain IDToken", StatusInternalServerError, TRUE)
      ELSE IF ~Verify(tok.idtok, now)
        THEN Result(state, NilTS, "Failed to verify IDToken", StatusInternalServerError, TRUE)
      ELSE IF req.nonceCookie = Absent
        THEN Result(state, NilTS, "Failed to obtain nonce", StatusBadRequest, TRUE)
      ELSE IF ~NonceMatches(req, tok.idtok)
        THEN Result(state, NilTS, "nonce didn't match", StatusBadRequest, TRUE)
      ELSE Result(state, idTS, NilErr, StatusOK, TRUE)

HandleAuthCode(mode, req, exch, now) ==
  LET err == CookieErr(req)
  IN  IF err # NilErr
        THEN Result(EmptyStr, NilTS, err, StatusBadRequest, FALSE)
      ELSE IF ~StateMatches(req)
        \* `return "", nil, err` with the err of r.Cookie, which is nil here
        THEN Result(EmptyStr, NilTS, err, StatusBadRequest, FALSE)
      ELSE IF exch.err
        THEN Result(EmptyStr, NilTS, "exchange failed", StatusInternalServerError, TRUE)
      ELSE IF mode = "oidc"
        THEN OIDCVerifyToken(req, exch.tok, now)
      ELSE Result(req.stateCookie, [kind |-> "TokenSource", tok |-> exch.tok],
                  NilErr, StatusOK, TRUE)

(***************************************************************************)
(* IDTokenSource: getToken, Token and IDToken.  `out` is what the          *)
(* underlying Source.Token() answers: an error or the oauth2 token.        *)
(***************************************************************************)
NoValue == [kind |-> "nil"]
TokenResult(val, err) == [val |-> val, err |-> err]

getTokenSkipsVerify(out, now) ==
  IF out.err
    THEN TokenResult(NoValue, "failed to get token from underlying token source")
  ELSE IF ~out.tok.idtok.present
    THEN TokenResult(NoValue, "Underlying token source didn't have field id_token")
  ELSE TokenResult([kind |-> "tokenInternals", tk |-> out.tok,
                    idTokJSON |-> out.tok.idtok, idTok |-> out.tok.idtok], NilErr)

getToken(out, now) ==
  IF out.err
    THEN TokenResult(NoValue, "failed to get token from underlying token source")
  ELSE IF ~out.tok.idtok.present
    THEN TokenResult(NoValue, "Underlying token source didn't have field id_token")
  ELSE IF ~Verify(out.tok.idtok, now)
    THEN TokenResult(NoValue, "Failed to verify ID token")
  ELSE TokenResult([kind |-> "tokenInternals", tk |-> out.tok,
                    idTokJSON |-> out.tok.idtok, idTok |-> out.tok.idtok], NilErr)

TokenExpiresAtCallTime(out, now) ==
  LET data == getToken(out, now)
  IN  IF data.err # NilErr THEN TokenResult(NoValue, data.err)
      ELSE TokenResult([kind |-> "oauth2.Token", AccessToken |-> data.val.idTokJSON,
                        Expiry |-> now], NilErr)

\* the bearer token: AccessToken is the raw id_token, Expiry the id token's
Token(out, now) ==
  LET data == getToken(out, now)
  IN  IF data.err # NilErr THEN TokenResult(NoValue, data.err)
      ELSE TokenResult([kind |-> "oauth2.Token", AccessToken |-> data.val.idTokJSON,
                        Expiry |-> data.val.idTok.exp], NilErr)

\* the verified identity token
IDToken(out, now) ==
  LET data == getToken(out, now)
  IN  IF data.err # NilErr THEN TokenResult(NoValue, data.err)
      ELSE TokenResult([kind |-> "oidc.IDToken", claims |-> data.val.idTok], NilErr)

\* tokenSourceOrError as handleAuthCallback builds it from HandleAuthCode's result
Signal(res) ==
  IF res.err # NilErr THEN [ts |-> NilTS, err |-> res.err]
  ELSE [ts |-> res.ts, err |-> NilErr]

(***************************************************************************)
(* Callback traffic of a flow: a callback the provider redirected to after *)
(* a login, one with a forged state parameter, one from a browser that     *)
(* lost its cookies, and one whose code the token endpoint rejects.        *)
(***************************************************************************)
GoodToken ==
  [access |-> "at1",
   idtok |-> [present |-> TRUE, sig |-> TRUE, exp |-> 1, nonce |-> "n1"]]
GoodRequest == [stateCookie |-> "s1", stateParam |-> "s1", nonceCookie |-> "n1"]
Callback(req, exch) == [req |-> req, exch |-> exch, now |-> 0]
FlowTraffic ==
  { Callback(GoodRequest, [err |-> FALSE, tok |-> GoodToken]),
    Callback([GoodRequest EXCEPT !.stateParam = "s2"], [err |-> FALSE, tok |-> GoodToken]),
    Callback([GoodRequest EXCEPT !.stateCookie = Absent], [err |-> FALSE, tok |-> GoodToken]),
    Callback(GoodRequest, ExchangeFailed) }
NoReplay == [req |-> "any"]

(***************************************************************************)
(* FileTokenCache: the cache file holds the JSON encoding of an            *)
(* oauth2.Token.  The encoding keeps access_token, refresh_token (left out *)
(* when empty) and expiry as an instant; the monotonic clock reading of    *)
(* the expiry is not written.                                              *)
(***************************************************************************)
RefreshTokens == {EmptyStr, "rt1"}
Expiries == [instant : Times, mono : BOOLEAN]
CacheTokens == [access : AccessTokens, refresh : RefreshTokens, expiry : Expiries]
NilToken == [kind |-> "nil"]
\* &oauth2.Token{}
ZeroToken ==
  [access |-> EmptyStr, refresh |-> EmptyStr, expiry |-> [instant |-> 0, mono |-> FALSE]]

\* json.NewEncoder(f).Encode(token)
Encode(t) ==
  IF t.refresh = EmptyStr
    THEN [access_token |-> t.access, expiry |-> t.expiry.instant]
    ELSE [access_token |-> t.access, refresh_token |-> t.refresh,
          expiry |-> t.expiry.instant]

\* json.NewDecoder(f).Decode(tok) into &oauth2.Token{}
Decode(doc) ==
  [ZeroToken EXCEPT
     !.access = doc.access_token,
     !.refresh = IF "refresh_token" \in DOMAIN doc THEN doc.refresh_token ELSE EmptyStr,
     !.expiry = [instant |-> doc.expiry, mono |-> FALSE]]

\* the cache file: missing, not accessible to the user, cut short by a failed
\* write, or holding one JSON document
NoFile == [kind |-> "absent"]
DeniedFile == [kind |-> "denied"]
TruncatedFile == [kind |-> "truncated"]
JSONFile(doc) == [kind |-> "json", doc |-> doc]
Files ==
  {NoFile, DeniedFile, TruncatedFile} \cup {JSONFile(Encode(t)) : t \in CacheTokens}
\* the directory of the cache file: there, not there, or not accessible
Dirs == {"present", "missing", "unusable"}

WrittenBehindOld(file, t) ==
  IF file.kind = "json" THEN file ELSE JSONFile(Encode(t))

\* the file after OpenFile(O_RDWR|O_CREATE|O_TRUNC) and a complete Encode
Written(file, t) == JSONFile(Encode(t))

\* Save: env tells whether MkdirAll and the write succeed
FileTokenCacheSave(file, dir, t, env) ==
  IF dir = "unusable"
    THEN [file |-> file, dir |-> dir, err |-> "stat failed"]
  ELSE IF dir = "missing" /\ ~env.mkdir
    THEN [file |-> file, dir |-> dir, err |-> "mkdir failed"]
  ELSE IF file = DeniedFile
    THEN [file |-> file, dir |-> "present", err |-> "open failed"]
  ELSE IF ~env.write
    THEN [file |-> TruncatedFile, dir |-> "present", err |-> "write failed"]
  ELSE [file |-> Written(file, t), dir |-> "present", err |-> NilErr]

\* GetToken
FileTokenCacheGetToken(file, dir) ==
  IF dir = "unusable" \/ file = DeniedFile
    THEN [tok |-> NilToken, err |-> "open failed"]
  ELSE IF dir = "missing" \/ file = NoFile
    THEN [tok |-> NilToken, err |-> NilErr]
  ELSE IF file = TruncatedFile
    THEN [tok |-> ZeroToken, err |-> "EOF"]
  ELSE [tok |-> Decode(file.doc), err |-> NilErr]

SaveEnvs == [mkdir : BOOLEAN, write : BOOLEAN]

\* what the wrapped helper's flow and Token() on its token source yield
FlowOutcomes ==
  {[err |-> "flow failed"], [err |-> "token failed"]} \cup [err : {NilErr}, tok : CacheTokens]
HelperTS == [kind |-> "TokenSource", of |-> "helper"]
\* c.CredentialHelper.GetOAuthConfig().TokenSource(ctx, tok)
ConfigTS(tok) == [kind |-> "TokenSource", tok |-> tok]

NeedsFlowAlways(read) == TRUE

\* tok == nil
NeedsFlow(read) == read.tok = NilToken

\* CachedCredentialHelper.GetTokenSource over the FileTokenCache
CachedGetTokenSource(file, dir, flow, env) ==
  LET read == FileTokenCacheGetToken(file, dir)
      same == [file |-> file, dir |-> dir, read |-> read, saved |-> FALSE]
  IN  IF read.err # NilErr
        THEN same @@ [ranFlow |-> FALSE, ts |-> NilTS, err |-> read.err]
      ELSE IF NeedsFlow(read)
        THEN IF flow.err = "flow failed"
               THEN same @@ [ranFlow |-> TRUE, ts |-> NilTS, err |-> flow.err]
             ELSE IF flow.err = "token failed"
               THEN same @@ [ranFlow |-> TRUE, ts |-> HelperTS, err |-> flow.err]
             ELSE LET sv == FileTokenCacheSave(file, dir, flow.tok, env)
                  IN  [file |-> sv.file, dir |-> sv.dir, read |-> read,
                       saved |-> sv.err = NilErr, ranFlow |-> TRUE,
                       ts |-> ConfigTS(flow.tok), err |-> NilErr]
      ELSE same @@ [ranFlow |-> FALSE, ts |-> ConfigTS(read.tok), err |-> NilErr]

(***************************************************************************)
(* The OIDC proxy: routes, sessions and requests.  Random identifiers come *)
(* from crypto/rand: RandString and randString are modelled as yielding a  *)
(* value not produced before, and as not failing.                          *)
(***************************************************************************)
oauthStart == "/oidc/start"
idTokenPath == "/oidc/token"
\* a path no route matches: the NotFoundHandler proxies it
appPath == "/app"
\* the request handlers the server runs at the same time
Handlers == {"h1", "h2"}
Free == "free"
\* helpers.RandString(24), call by call
SidSeq == <<"sid1", "sid2", "sid3", "sid4", "sid5", "sid6", "sid7", "sid8">>
\* a session cookie value the proxy never issued
Forged == "forged"
\* randString(16) of RedirectToAuthURL, call by call: state and nonce
StateSeq == <<"s1", "s2">>
NonceSeq == <<"n1", "n2">>
NonceOf(state) ==
  IF \E i \in 1 .. Len(StateSeq) : StateSeq[i] = state
    THEN NonceSeq[CHOOSE i \in 1 .. Len(StateSeq) : StateSeq[i] = state]
    ELSE Absent

\* session{}
ZeroSession == [Ts |-> NilTS, NextURL |-> EmptyStr]
NoSessions == [k \in {} |-> ZeroSession]
NoStates == [k \in {} |-> EmptyStr]

\* p.mu.Lock() / p.mu.Unlock(): the holder of the mutex afterwards
LockLeavesFree(h) == Free
Lock(h) == h
UnlockKeepsHeld(h) == h
Unlock(h) == Free

\* the body of getSession
getSession(sessions, cookie) ==
  IF cookie \in DOMAIN sessions
    THEN [sess |-> sessions[cookie], ok |-> TRUE]
    ELSE [sess |-> ZeroSession, ok |-> FALSE]

setSessionForAll(sessions, cookie, sess) ==
  IF cookie = EmptyStr THEN sessions
  ELSE [k \in DOMAIN sessions \cup {cookie} |-> sess]

\* the body of setSession
setSession(sessions, cookie, sess) ==
  IF cookie = EmptyStr THEN sessions
  ELSE [k \in DOMAIN sessions \cup {cookie} |-> IF k = cookie THEN sess ELSE sessions[k]]

\* the closure of handleOAuthCallback that reads stateToSid
lookupSid(stateToSid, state) ==
  IF state \in DOMAIN stateToSid THEN stateToSid[state] ELSE EmptyStr

WithTsDropped(sess, ts) == sess

\* session.Ts = ts
WithTs(sess, ts) == [sess EXCEPT !.Ts = ts]

NewSessionForTokenPath(url) == [Ts |-> NilTS, NextURL |-> idTokenPath]

\* session{NextURL: r.URL.String()}
NewSession(url) == [Ts |-> NilTS, NextURL |-> url]

\* nextURL of handleOAuthCallback
nextURL(sess) == IF sess.NextURL = EmptyStr THEN idTokenPath ELSE sess.NextURL

DirectorStaleToken(tok) == [jwt |-> NoIDToken, authorization |-> NoIDToken]

\* the headers the director sets on the forwarded request
Director(tok) == [jwt |-> tok.AccessToken, authorization |-> tok.AccessToken]

\* responses
NoHeaders == [jwt |-> NoIDToken, authorization |-> NoIDToken]
Status(code) ==
  [status |-> code, location |-> EmptyStr, setCookie |-> EmptyStr,
   forwarded |-> FALSE, headers |-> NoHeaders]
Redirect(location, cookie) ==
  [status |-> StatusFound, location |-> location, setCookie |-> cookie,
   forwarded |-> FALSE, headers |-> NoHeaders]
Forwarded(headers) ==
  [status |-> StatusOK, location |-> EmptyStr, setCookie |-> EmptyStr,
   forwarded |-> TRUE, headers |-> headers]
\* the handler panicked: the server recovers and drops the connection, so no
\* status line is sent
Panic == 0
Panicked ==
  [status |-> Panic, location |-> EmptyStr, setCookie |-> EmptyStr,
   forwarded |-> FALSE, headers |-> NoHeaders]
AuthURL == "provider"

\* the callback requests: state cookie, state parameter, the nonce cookie set
\* together with the state cookie
NoRequest == [stateCookie |-> Absent, stateParam |-> EmptyStr, nonceCookie |-> Absent]
CallbackRequest(stateCookie, stateParam) ==
  [stateCookie |-> stateCookie, stateParam |-> stateParam,
   nonceCookie |-> NonceOf(stateCookie)]
\* the token the provider issues for a login started with `nonce`
ProviderToken(nonce) ==
  [access |-> "at1",
   idtok |-> [present |-> TRUE, sig |-> TRUE, exp |-> 1, nonce |-> nonce]]

\* a handler: its position, the request and its local variables
IdleHandler ==
  [pc |-> "idle", route |-> "none", cookie |-> Absent, url |-> EmptyStr,
   req |-> NoRequest, sid |-> EmptyStr, found |-> FALSE, state |-> EmptyStr,
   ts |-> NilTS, sess |-> ZeroSession, ok |-> FALSE,
   tokres |-> TokenResult(NoValue, NilErr), resp |-> <<>>,
   \* history: a callback accepted the state cookie's value before this request
   replay |-> FALSE]
\* positions just before p.mu.Lock() and the position the lock leads to
LockPcs ==
  {"eaGetLock", "eaSetLock", "nxGetLock", "stLock", "cbLookLock", "cbGetLock", "cbSetLock"}
AfterLock(pc) ==
  CASE pc = "eaGetLock" -> "eaGet"
    [] pc = "eaSetLock" -> "eaSet"
    [] pc = "nxGetLock" -> "nxGet"
    [] pc = "stLock" -> "stWrite"
    [] pc = "cbLookLock" -> "cbLook"
    [] pc = "cbGetLock" -> "cbGet"
    [] pc = "cbSetLock" -> "cbSet"
\* positions at a read or write of p.sessions or p.stateToSid
AccessPcs == {"eaGet", "eaSet", "nxGet", "stWrite", "cbLook", "cbGet", "cbSet"}
\* positions at an outbound call: the code exchange, Token(), IDToken() and
\* the forward to the upstream target
NetworkPcs == {"cbExchange", "prToken", "tkIDToken", "prForward"}

(***************************************************************************)
(* helpers.RandString and RandBytes.  A string is the sequence of its      *)
(* characters, each the index of a base64url digit.  The random source is  *)
(* a byte stream; reading it may fail.                                     *)
(***************************************************************************)
RandSources == [a : {0, 7, 101}, b : {0, 19, 255}]
\* io.ReadFull(rand.Reader, b) into make([]byte, nByte)
ReadFull(src, nByte) == [i \in 1 .. nByte |-> (src.a * i + src.b) % 256]
\* bit k of the byte string, most significant first; 0 past its end
BitAt(bytes, k) ==
  IF k > 8 * Len(bytes) THEN 0
  ELSE (bytes[((k - 1) \div 8) + 1] \div (2 ^ (7 - ((k - 1) % 8)))) % 2
\* base64.RawURLEncoding.EncodedLen
EncodedLen(n) == (n \div 3) * 4 + ((n % 3) * 8 + 5) \div 6
\* base64.RawURLEncoding.EncodeToString: six bits per character, no padding
EncodeToString(bytes) ==
  [j \in 1 .. EncodedLen(Len(bytes)) |->
     32 * BitAt(bytes, 6 * j - 5) + 16 * BitAt(bytes, 6 * j - 4)
       + 8 * BitAt(bytes, 6 * j - 3) + 4 * BitAt(bytes, 6 * j - 2)
       + 2 * BitAt(bytes, 6 * j - 1) + BitAt(bytes, 6 * j)]

RandBytes(src, nByte, readOK) ==
  IF ~readOK THEN [str |-> <<>>, err |-> "read failed"]
  ELSE [str |-> EncodeToString(ReadFull(src, nByte)), err |-> NilErr]

NumBytesNoSlack(length) == (3 * length) \div 4

NumBytesHalf(length) == length \div 2

\* int((float64(length) + 1.0) * .75): the product is exact, int truncates
NumBytes(length) == (3 * (length + 1)) \div 4

\* b[0:length] panics when length exceeds len(b)
RandString(src, length, readOK) ==
  LET n == NumBytes(length)
      b == RandBytes(src, n, readOK)
  IN  IF b.err # NilErr
        THEN [str |-> <<>>, err |-> b.err, panic |-> FALSE, nBytes |-> n]
      ELSE IF length > Len(b.str)
        THEN [str |-> <<>>, err |-> NilErr, panic |-> TRUE, nBytes |-> n]
      ELSE [str |-> SubSeq(b.str, 1, length), err |-> NilErr, panic |-> FALSE,
            nBytes |-> n]

(***************************************************************************)
(* State.                                                                  *)
(***************************************************************************)
VARIABLES
  mode,     \* "oidc": OIDCWebFlowServer, "oauth": WebFlowHelper
  pc,       \* position of Run
  srv,      \* the HTTP server of startAndBlock: unset, listening, failed, closed
  polls,    \* health polls of waitForReady that failed
  c,        \* buffer of the completion channel
  sendq,    \* values of the callback handlers parked on their send to c
  handling, \* callback handlers accepted and still inside HandleAuthCode
  rcv,      \* what Run's select yielded: nothing yet, a value or the timeout
  ret,      \* the return values of Run
  budget,   \* callback requests the environment may still issue
  replay,   \* NoReplay, or the one callback request the browser keeps retrying
  recvCount,      \* history: receives performed on c
  sentEarly,      \* history: a value was sent on c before the completion timer fired
  shutdownCalled, \* history: srv.Shutdown was called
  call,     \* the last HandleAuthCode invocation: its inputs and its result
  source,   \* the oauth2 token the Source of an IDTokenSource currently holds
  clock,    \* the time the verifier sees
  tcall,    \* the last Token() / IDToken() call on the IDTokenSource
  file,     \* the cache file of the FileTokenCache
  dir,      \* the directory of the cache file
  cop,      \* the last call on the cache or on the CachedCredentialHelper
  sessions,   \* p.sessions
  stateToSid, \* p.stateToSid
  mu,         \* p.mu: Free or the handler holding it
  hs,         \* the handlers: running, or done with the response they sent
  nreq,       \* requests received
  minted,     \* session identifiers generated
  started,    \* states generated by RedirectToAuthURL
  accepted,   \* history: the states of the callbacks HandleAuthCode accepted
  issued,     \* history: the session identifiers sent in a Set-Cookie
  fcall       \* a call of one of the helper functions: its inputs and its result

flowVars == <<mode, pc, srv, polls, c, sendq, handling, rcv, ret, budget, replay,
              recvCount, sentEarly, shutdownCalled>>
tokVars == <<source, clock, tcall>>
cacheVars == <<file, dir, cop>>
proxyVars == <<sessions, stateToSid, mu, hs, nreq, minted, started, accepted, issued>>
vars == <<flowVars, call, tokVars, cacheVars, proxyVars, fcall>>

NoRcv == [kind |-> "none"]
TimerRcv == [kind |-> "timeout"]
ValueRcv(v) == [kind |-> "value", v |-> v]
NoRet == [returned |-> FALSE]
\* the errors Run returns
ErrReadyTimeout == "timeout waiting for server to be healthy"
ErrFlowTimeout == "Timeout waiting for OIDC flow to complete"
ErrWrapped == "flow didn't complete successfully"
Return(ts, err) == [returned |-> TRUE, ts |-> ts, err |-> err]
NoCall == [made |-> FALSE]
NoSource == [access |-> "none", idtok |-> NoIDToken]
TokIdle == source = NoSource /\ clock = 0 /\ tcall = NoCall
NoOp == [seq |-> 0, op |-> "none"]
CacheIdle == file = NoFile /\ dir = "missing" /\ cop = NoOp
\* no helper function is under call
HelperIdle == fcall = NoCall
\* NewProxy
ProxyInit ==
  /\ sessions = NoSessions
  /\ stateToSid = NoStates
  /\ mu = Free
  /\ hs = [h \in Handlers |-> IdleHandler]
  /\ nreq = 0
  /\ minted = 0
  /\ started = 0
  /\ accepted = <<>>
  /\ issued = <<>>

FlowInit ==
  /\ mode \in Modes
  /\ pc = "start"
  /\ srv = "unset"
  /\ polls = 0
  /\ c = <<>>
  /\ sendq = <<>>
  /\ handling = 0
  /\ rcv = NoRcv
  /\ ret = NoRet
  /\ \/ replay = NoReplay /\ budget = MaxCallbacks
     \/ replay \in FlowTraffic /\ budget = ChanCap + BurstExtra
  /\ recvCount = 0
  /\ sentEarly = FALSE
  /\ shutdownCalled = FALSE

Init == FlowInit /\ call = NoCall /\ TokIdle /\ CacheIdle /\ ProxyInit /\ HelperIdle

(***************************************************************************)
(* Run of OIDCWebFlowServer / WebFlowHelper and the background server.     *)
(***************************************************************************)
\* go func() { s.startAndBlock() }()
RunStart ==
  /\ pc = "start"
  /\ pc' = "waitForReady"
  /\ UNCHANGED <<mode, srv, polls, c, sendq, handling, rcv, ret, budget, replay,
                 recvCount, sentEarly, shutdownCalled, call, tokVars, cacheVars, proxyVars, fcall>>

\* startAndBlock: s.srv is set and ListenAndServe binds the port or fails
startAndBlock ==
  /\ pc # "start"
  /\ srv = "unset"
  /\ srv' \in {"listening", "failed"}
  /\ UNCHANGED <<mode, pc, polls, c, sendq, handling, rcv, ret, budget, replay,
                 recvCount, sentEarly, shutdownCalled, call, tokVars, cacheVars, proxyVars, fcall>>

\* waitForReady: GET /healthz answered 200
waitForReadyOK ==
  /\ pc = "waitForReady"
  /\ srv = "listening"
  /\ pc' = "openBrowser"
  /\ UNCHANGED <<mode, srv, polls, c, sendq, handling, rcv, ret, budget, replay,
                 recvCount, sentEarly, shutdownCalled, call, tokVars, cacheVars, proxyVars, fcall>>

\* waitForReady: the GET failed or was not answered 200; sleep and poll again
waitForReadyRetry ==
  /\ pc = "waitForReady"
  /\ polls < MaxPolls
  /\ polls' = polls + 1
  /\ UNCHANGED <<mode, pc, srv, c, sendq, handling, rcv, ret, budget, replay,
                 recvCount, sentEarly, shutdownCalled, call, tokVars, cacheVars, proxyVars, fcall>>

\* waitForReady: endTime has passed; Run returns the error before its defer
waitForReadyTimeout ==
  /\ pc = "waitForReady"
  /\ polls >= 1
  /\ ret' = Return(NilTS, ErrReadyTimeout)
  /\ pc' = "done"
  /\ UNCHANGED <<mode, srv, polls, c, sendq, handling, rcv, budget, replay,
                 recvCount, sentEarly, shutdownCalled, call, tokVars, cacheVars, proxyVars, fcall>>

\* browser.OpenURL (a failure only prints the URL), then the defer is registered
RunOpenBrowser ==
  /\ pc = "openBrowser"
  /\ pc' = "select"
  /\ UNCHANGED <<mode, srv, polls, c, sendq, handling, rcv, ret, budget, replay,
                 recvCount, sentEarly, shutdownCalled, call, tokVars, cacheVars, proxyVars, fcall>>

\* the body of `case tsOrError := <-s.c`
CaseValue(v) ==
  IF v.err # NilErr THEN Return(NilTS, ErrWrapped)
  ELSE Return(v.ts, NilErr)

AfterCaseLoop == "select"

AfterCaseSkipsDefer == "done"

\* where Run continues after a case of the select: its deferred function
AfterCase == "shutdown"

\* select entered with a value buffered: it is received, and the first parked
\* sender moves its value into the buffer
RunSelectReceive ==
  /\ pc = "select"
  /\ c # <<>>
  /\ rcv' = ValueRcv(Head(c))
  /\ ret' = CaseValue(Head(c))
  /\ recvCount' = recvCount + 1
  /\ IF sendq # <<>>
       THEN c' = Append(Tail(c), Head(sendq)) /\ sendq' = Tail(sendq)
       ELSE c' = Tail(c) /\ sendq' = sendq
  /\ pc' = AfterCase
  /\ UNCHANGED <<mode, srv, polls, handling, budget, replay, sentEarly,
                 shutdownCalled, call, tokVars, cacheVars, proxyVars, fcall>>

\* select entered with the channel empty: Run parks on c and on the timer
RunSelectBlock ==
  /\ pc = "select"
  /\ c = <<>>
  /\ pc' = "blocked"
  /\ UNCHANGED <<mode, srv, polls, c, sendq, handling, rcv, ret, budget, replay,
                 recvCount, sentEarly, shutdownCalled, call, tokVars, cacheVars, proxyVars, fcall>>

\* `case <-time.After(3 * time.Minute)`
RunSelectTimeout ==
  /\ pc = "blocked"
  /\ rcv' = TimerRcv
  /\ ret' = Return(NilTS, ErrFlowTimeout)
  /\ pc' = AfterCase
  /\ UNCHANGED <<mode, srv, polls, c, sendq, handling, budget, replay,
                 recvCount, sentEarly, shutdownCalled, call, tokVars, cacheVars, proxyVars, fcall>>

\* http.Server.Shutdown first closes the listeners
ShutdownListener == "closed"

\* the deferred function calls s.srv.Shutdown(context.Background())
RunShutdown ==
  /\ pc = "shutdown"
  /\ srv' = ShutdownListener
  /\ shutdownCalled' = TRUE
  /\ pc' = "shutdownWait"
  /\ UNCHANGED <<mode, polls, c, sendq, handling, rcv, ret, budget, replay,
                 recvCount, sentEarly, call, tokVars, cacheVars, proxyVars, fcall>>

\* Shutdown returns once no handler is active any more; then Run returns
RunShutdownReturn ==
  /\ pc = "shutdownWait"
  /\ handling = 0
  /\ sendq = <<>>
  /\ pc' = "done"
  /\ UNCHANGED <<mode, srv, polls, c, sendq, handling, rcv, ret, budget, replay,
                 recvCount, sentEarly, shutdownCalled, call, tokVars, cacheVars, proxyVars, fcall>>

(***************************************************************************)
(* The callback endpoint.                                                  *)
(***************************************************************************)
\* the server accepts a request to the callback path and starts its handler
AcceptCallback ==
  /\ srv = "listening"
  /\ budget > 0
  /\ budget' = budget - 1
  /\ handling' = handling + 1
  /\ UNCHANGED <<mode, pc, srv, polls, c, sendq, rcv, ret, replay,
                 recvCount, sentEarly, shutdownCalled, call, tokVars, cacheVars, proxyVars, fcall>>

\* `s.c <- v`: handed to Run when it is parked in the select, else buffered,
\* else the handler parks
Send(v) ==
  IF pc = "blocked"
    THEN /\ rcv' = ValueRcv(v)
         /\ ret' = CaseValue(v)
         /\ recvCount' = recvCount + 1
         /\ pc' = AfterCase
         /\ UNCHANGED <<c, sendq>>
  ELSE IF Len(c) < ChanCap
    THEN /\ c' = Append(c, v)
         /\ UNCHANGED <<pc, rcv, ret, recvCount, sendq>>
  ELSE /\ sendq' = Append(sendq, v)
       /\ UNCHANGED <<pc, rcv, ret, recvCount, c>>

\* handleAuthCallback: HandleAuthCode, then the result is sent on the channel
handleAuthCallback ==
  /\ handling > 0
  /\ \E cb \in (IF replay = NoReplay THEN FlowTraffic ELSE {replay}) :
       Send(Signal(HandleAuthCode(mode, cb.req, cb.exch, cb.now)))
  /\ handling' = handling - 1
  /\ sentEarly' = (sentEarly \/ rcv # TimerRcv)
  /\ UNCHANGED <<mode, srv, polls, budget, replay, shutdownCalled, call, tokVars, cacheVars, proxyVars, fcall>>

Next ==
  \/ RunStart
  \/ startAndBlock
  \/ waitForReadyOK
  \/ waitForReadyRetry
  \/ waitForReadyTimeout
  \/ RunOpenBrowser
  \/ RunSelectReceive
  \/ RunSelectBlock
  \/ RunSelectTimeout
  \/ RunShutdown
  \/ RunShutdownReturn
  \/ AcceptCallback
  \/ handleAuthCallback

Spec == Init /\ [][Next]_vars

(***************************************************************************)
(* HandleAuthCode on arbitrary callback requests.                          *)
(***************************************************************************)
FlowIdle ==
  /\ mode = "oidc" /\ pc = "start" /\ srv = "unset" /\ polls = 0 /\ c = <<>>
  /\ sendq = <<>> /\ handling = 0 /\ rcv = NoRcv /\ ret = NoRet
  /\ budget = 0 /\ replay = NoReplay /\ recvCount = 0 /\ sentEarly = FALSE
  /\ shutdownCalled = FALSE

InitHandler ==
  /\ FlowIdle
  /\ ProxyInit
  /\ HelperIdle
  /\ TokIdle
  /\ CacheIdle
  /\ call \in [made : {FALSE}, mode : Modes, req : Requests,
               exch : ExchangeResults, now : Times]

\* One invocation of HandleAuthCode on the request drawn.
CallHandleAuthCode ==
  /\ ~call.made
  /\ call' = [call EXCEPT !.made = TRUE] @@
             [res |-> HandleAuthCode(call.mode, call.req, call.exch, call.now)]
  /\ UNCHANGED <<flowVars, tokVars, cacheVars, proxyVars, fcall>>

NextHandler == CallHandleAuthCode

SpecHandler == InitHandler /\ [][NextHandler]_vars

(***************************************************************************)
(* The IDTokenSource a successful OIDC HandleAuthCode returned, used by    *)
(* its owner: Token() and IDToken() calls while time passes and the        *)
(* underlying source refreshes its token.                                  *)
(***************************************************************************)
InitToken ==
  /\ FlowIdle
  /\ ProxyInit
  /\ HelperIdle
  /\ call = NoCall
  /\ CacheIdle
  /\ clock = 0
  /\ tcall = NoCall
  /\ \E req \in Requests, exch \in ExchangeResults :
       LET res == HandleAuthCode("oidc", req, exch, 0)
       IN  res.err = NilErr /\ res.ts # NilTS /\ source = res.ts.tok

\* time passes
Tick ==
  /\ clock < MaxTime
  /\ clock' = clock + 1
  /\ UNCHANGED <<flowVars, call, source, tcall, cacheVars, proxyVars, fcall>>

\* s.Source.Token(): the token held, a refreshed one, or an error
SourceOutcomes ==
  {[err |-> TRUE]} \cup [err : {FALSE}, tok : {source} \cup OAuth2Tokens]

TokenCall(op, out) ==
  /\ tcall' = [made |-> TRUE, op |-> op, out |-> out, now |-> clock, held |-> source,
               res |-> IF op = "Token" THEN Token(out, clock) ELSE IDToken(out, clock)]
  /\ source' = IF out.err THEN source ELSE out.tok
  /\ UNCHANGED <<flowVars, call, clock, cacheVars, proxyVars, fcall>>

CallToken == \E out \in SourceOutcomes : TokenCall("Token", out)

CallIDToken == \E out \in SourceOutcomes : TokenCall("IDToken", out)

NextToken == Tick \/ CallToken \/ CallIDToken

SpecToken == InitToken /\ [][NextToken]_vars

(***************************************************************************)
(* A FileTokenCache and the CachedCredentialHelper over it: Save, GetToken *)
(* and GetTokenSource calls of one process on one cache file.              *)
(***************************************************************************)
InitCache ==
  /\ FlowIdle
  /\ ProxyInit
  /\ HelperIdle
  /\ call = NoCall
  /\ TokIdle
  /\ dir \in Dirs
  /\ file \in Files
  /\ dir # "present" => file = NoFile
  /\ cop = NoOp

Save ==
  /\ cop.seq < MaxCacheOps
  /\ \E t \in CacheTokens, env \in SaveEnvs :
       LET sv == FileTokenCacheSave(file, dir, t, env)
       IN  /\ file' = sv.file
           /\ dir' = sv.dir
           /\ cop' = [seq |-> cop.seq + 1, op |-> "Save", tok |-> t, err |-> sv.err,
                      replaced |-> file.kind = "json" /\ file # JSONFile(Encode(t))]
  /\ UNCHANGED <<flowVars, call, tokVars, proxyVars, fcall>>

\* `saved` is the token of the Save that returned nil just before this call
GetToken ==
  /\ cop.seq < MaxCacheOps
  /\ LET read == FileTokenCacheGetToken(file, dir)
         afterSave == cop.op = "Save" /\ cop.err = NilErr
     IN  cop' = [seq |-> cop.seq + 1, op |-> "GetToken", tok |-> read.tok,
                 err |-> read.err,
                 saved |-> IF afterSave THEN cop.tok ELSE NilToken,
                 replaced |-> afterSave /\ cop.replaced]
  /\ UNCHANGED <<flowVars, call, tokVars, file, dir, proxyVars, fcall>>

\* `afterSavedFlow`: the call just before was a GetTokenSource whose flow ran
\* and whose token Save stored
GetTokenSource ==
  /\ cop.seq < MaxCacheOps
  /\ \E flow \in FlowOutcomes, env \in SaveEnvs :
       LET r == CachedGetTokenSource(file, dir, flow, env)
       IN  /\ file' = r.file
           /\ dir' = r.dir
           /\ cop' = [seq |-> cop.seq + 1, op |-> "GetTokenSource", read |-> r.read,
                      ranFlow |-> r.ranFlow, saved |-> r.saved, ts |-> r.ts,
                      err |-> r.err,
                      afterSavedFlow |-> /\ cop.op = "GetTokenSource"
                                         /\ cop.ranFlow /\ cop.saved]
  /\ UNCHANGED <<flowVars, call, tokVars, proxyVars, fcall>>

NextCache == Save \/ GetToken \/ GetTokenSource

SpecCache == InitCache /\ [][NextCache]_vars

(***************************************************************************)
(* The OIDC proxy: the server runs a handler per request; handlers         *)
(* interleave at p.mu.Lock() and at their outbound calls.                  *)
(***************************************************************************)
InitProxy ==
  /\ FlowIdle
  /\ call = NoCall
  /\ TokIdle
  /\ CacheIdle
  /\ ProxyInit
  /\ HelperIdle

\* the handler that serves the next request
Available(h) == hs[h].pc \in {"idle", "done"}
Slot == IF Available("h1") THEN "h1" ELSE "h2"
\* session cookies a client can present: none, one the proxy stored, a forged one
Cookies == {Absent, Forged} \cup DOMAIN sessions
Update(h, rec) == hs' = [hs EXCEPT ![h] = rec]
Done(rec, resp) == [rec EXCEPT !.pc = "done", !.resp = rec.resp \o resp]
\* sess == nil in oidcEnsureAuth: a session identifier is generated
Mint(rec) == [rec EXCEPT !.pc = "eaSetLock", !.sid = SidSeq[minted + 1]]
PVars == <<flowVars, call, tokVars, cacheVars, fcall>>

\* a request to a protected path enters oidcEnsureAuth: r.Cookie(sessionCookie)
ProtectedRequest ==
  /\ nreq < MaxRequests
  /\ \E h \in Handlers :
       /\ Available(h) /\ h = Slot
       /\ \E route \in {"token", "proxy"}, cookie \in Cookies :
            LET rec == [IdleHandler EXCEPT
                          !.route = route, !.cookie = cookie,
                          !.url = IF route = "token" THEN idTokenPath ELSE appPath]
            IN  IF cookie = Absent
                  THEN Update(h, Mint(rec)) /\ minted' = minted + 1
                  ELSE Update(h, [rec EXCEPT !.pc = "eaGetLock"]) /\ UNCHANGED minted
  /\ nreq' = nreq + 1
  /\ UNCHANGED <<PVars, sessions, stateToSid, mu, started, accepted, issued>>

\* handleOAuthStart up to p.mu.Lock(): getSID and RedirectToAuthURL
StartRequest ==
  /\ nreq < MaxRequests
  /\ started < Len(StateSeq)
  /\ \E h \in Handlers :
       /\ Available(h) /\ h = Slot
       /\ \E cookie \in Cookies :
            LET rec == [IdleHandler EXCEPT !.route = "start", !.cookie = cookie,
                                           !.url = oauthStart]
            IN  IF cookie = Absent
                  THEN Update(h, Done(rec, <<Status(StatusBadRequest)>>))
                       /\ UNCHANGED started
                  ELSE Update(h, [rec EXCEPT !.pc = "stLock",
                                             !.state = StateSeq[started + 1],
                                             !.resp = <<Redirect(AuthURL, EmptyStr)>>])
                       /\ started' = started + 1
  /\ nreq' = nreq + 1
  /\ UNCHANGED <<PVars, sessions, stateToSid, mu, minted, accepted, issued>>

\* a callback whose state and nonce cookies the client made up itself
ForgedCallback == [stateCookie |-> "sx", stateParam |-> "sx", nonceCookie |-> "n1"]
\* a request to the redirect URL enters handleOAuthCallback.  The state cookie
\* is missing, made up, or one a start response delivered: the response leaves
\* when handleOAuthStart returns, after it recorded the state
CallbackRequests ==
  {ForgedCallback} \cup
  { CallbackRequest(sc, sp) : sc \in {Absent} \cup DOMAIN stateToSid, sp \in States }
CallbackArrives ==
  /\ nreq < MaxRequests
  /\ \E h \in Handlers :
       /\ Available(h) /\ h = Slot
       /\ \E req \in CallbackRequests :
            Update(h, [IdleHandler EXCEPT
                         !.pc = "cbExchange", !.route = "callback", !.req = req,
                         !.replay = \E i \in 1 .. Len(accepted) :
                                       accepted[i] = req.stateCookie])
  /\ nreq' = nreq + 1
  /\ UNCHANGED <<PVars, sessions, stateToSid, mu, minted, started, accepted, issued>>

\* p.mu.Lock()
MuLock ==
  \E h \in Handlers :
    /\ hs[h].pc \in LockPcs
    /\ mu = Free
    /\ mu' = Lock(h)
    /\ Update(h, [hs[h] EXCEPT !.pc = AfterLock(hs[h].pc)])
    /\ UNCHANGED <<PVars, sessions, stateToSid, nreq, minted, started, accepted, issued>>

\* oidcEnsureAuth: getSession(cookie.Value), then next or a new identifier
ensureAuthGetSession ==
  \E h \in Handlers :
    /\ hs[h].pc = "eaGet"
    /\ LET r == getSession(sessions, hs[h].cookie)
       IN  IF r.ok
             THEN Update(h, [hs[h] EXCEPT !.pc = "nxGetLock", !.found = TRUE])
                  /\ UNCHANGED minted
             ELSE Update(h, Mint(hs[h])) /\ minted' = minted + 1
    /\ mu' = Unlock(h)
    /\ UNCHANGED <<PVars, sessions, stateToSid, nreq, started, accepted, issued>>

\* oidcEnsureAuth: setSession(sid, ...), setCookie and the redirect to oauthStart
ensureAuthSetSession ==
  \E h \in Handlers :
    /\ hs[h].pc = "eaSet"
    /\ sessions' = setSession(sessions, hs[h].sid, NewSession(hs[h].url))
    /\ mu' = Unlock(h)
    /\ Update(h, Done(hs[h], <<Redirect(oauthStart, hs[h].sid)>>))
    /\ issued' = Append(issued, hs[h].sid)
    /\ UNCHANGED <<PVars, stateToSid, nreq, minted, started, accepted>>

\* what Source.Token() of a session's IDTokenSource answers
SessionSourceOutcomes(ts) == {[err |-> TRUE], [err |-> FALSE, tok |-> ts.tok]}

\* handleToken / proxyRequest: getSID, getSession and the checks that follow
nextGetSession ==
  \E h \in Handlers :
    /\ hs[h].pc = "nxGet"
    /\ LET r == getSession(sessions, hs[h].cookie)
           rec == [hs[h] EXCEPT !.sess = r.sess, !.ok = r.ok]
       IN  IF ~r.ok
             THEN Update(h, Done(rec, <<Status(StatusInternalServerError)>>))
           ELSE IF hs[h].route = "token"
             THEN IF r.sess.Ts = NilTS
                    \* sess.Ts.IDToken() on a nil *IDTokenSource
                    THEN Update(h, Done(rec, <<Panicked>>))
                    ELSE Update(h, [rec EXCEPT !.pc = "tkIDToken"])
           ELSE IF r.sess.Ts = NilTS
             THEN Update(h, Done(rec, <<Status(StatusBadRequest)>>))
           ELSE Update(h, [rec EXCEPT !.pc = "prToken"])
    /\ mu' = Unlock(h)
    /\ UNCHANGED <<PVars, sessions, stateToSid, nreq, minted, started, accepted, issued>>

\* handleToken: sess.Ts.IDToken() and the page written
handleToken ==
  \E h \in Handlers :
    /\ hs[h].pc = "tkIDToken"
    /\ \E out \in SessionSourceOutcomes(hs[h].sess.Ts) :
         LET res == IDToken(out, 0)
             rec == [hs[h] EXCEPT !.tokres = res]
         IN  IF res.err # NilErr
               THEN Update(h, Done(rec, <<Status(StatusInternalServerError)>>))
               ELSE Update(h, Done(rec, <<Status(StatusOK)>>))
    /\ UNCHANGED <<PVars, sessions, stateToSid, mu, nreq, minted, started, accepted, issued>>

\* proxyRequest: sess.Ts.Token()
proxyRequestToken ==
  \E h \in Handlers :
    /\ hs[h].pc = "prToken"
    /\ \E out \in SessionSourceOutcomes(hs[h].sess.Ts) :
         LET res == Token(out, 0)
             rec == [hs[h] EXCEPT !.tokres = res]
         IN  IF res.err # NilErr
               THEN Update(h, Done(rec, <<Status(StatusInternalServerError)>>))
               ELSE Update(h, [rec EXCEPT !.pc = "prForward"])
    /\ UNCHANGED <<PVars, sessions, stateToSid, mu, nreq, minted, started, accepted, issued>>

\* proxyRequest: the ReverseProxy forwards the request to the target
proxyRequestForward ==
  \E h \in Handlers :
    /\ hs[h].pc = "prForward"
    /\ Update(h, Done(hs[h], <<Forwarded(Director(hs[h].tokres.val))>>))
    /\ UNCHANGED <<PVars, sessions, stateToSid, mu, nreq, minted, started, accepted, issued>>

\* handleOAuthStart: p.stateToSid[state] = cookie and the deferred Unlock
handleOAuthStart ==
  \E h \in Handlers :
    /\ hs[h].pc = "stWrite"
    /\ stateToSid' = [k \in DOMAIN stateToSid \cup {hs[h].state} |->
                        IF k = hs[h].state THEN hs[h].cookie ELSE stateToSid[k]]
    /\ mu' = Unlock(h)
    /\ Update(h, Done(hs[h], <<>>))
    /\ UNCHANGED <<PVars, sessions, nreq, minted, started, accepted, issued>>

\* what the token endpoint answers to the callback's code
CallbackExchanges ==
  {ExchangeFailed} \cup {[err |-> FALSE, tok |-> ProviderToken(n)] : n \in Nonces}

\* handleOAuthCallback: p.handlers.HandleAuthCode(w, r)
callbackHandleAuthCode ==
  \E h \in Handlers :
    /\ hs[h].pc = "cbExchange"
    /\ \E exch \in CallbackExchanges :
         LET res == HandleAuthCode("oidc", hs[h].req, exch, 0)
             written == IF res.status = StatusOK THEN <<>> ELSE <<Status(res.status)>>
         IN  IF res.err # NilErr
               THEN Update(h, Done(hs[h], written)) /\ UNCHANGED accepted
               ELSE /\ Update(h, [hs[h] EXCEPT !.pc = "cbLookLock", !.state = res.state,
                                               !.ts = res.ts, !.resp = written])
                    /\ accepted' = IF res.ts # NilTS THEN Append(accepted, res.state)
                                   ELSE accepted
    /\ UNCHANGED <<PVars, sessions, stateToSid, mu, nreq, minted, started, issued>>

\* handleOAuthCallback: the closure that reads p.stateToSid[state]
callbackLookup ==
  \E h \in Handlers :
    /\ hs[h].pc = "cbLook"
    /\ Update(h, [hs[h] EXCEPT !.pc = "cbGetLock",
                               !.sid = lookupSid(stateToSid, hs[h].state)])
    /\ mu' = Unlock(h)
    /\ UNCHANGED <<PVars, sessions, stateToSid, nreq, minted, started, accepted, issued>>

\* handleOAuthCallback: getSession(cookie); a miss writes the 500 and goes on
callbackGetSession ==
  \E h \in Handlers :
    /\ hs[h].pc = "cbGet"
    /\ LET r == getSession(sessions, hs[h].sid)
       IN  Update(h, [hs[h] EXCEPT
                        !.pc = "cbSetLock", !.sess = r.sess, !.ok = r.ok,
                        !.resp = IF r.ok THEN @
                                 ELSE @ \o <<Status(StatusInternalServerError)>>])
    /\ mu' = Unlock(h)
    /\ UNCHANGED <<PVars, sessions, stateToSid, nreq, minted, started, accepted, issued>>

\* handleOAuthCallback: session.Ts = ts; setSession(cookie, session)
callbackSetSession ==
  \E h \in Handlers :
    /\ hs[h].pc = "cbSet"
    /\ sessions' = setSession(sessions, hs[h].sid, WithTs(hs[h].sess, hs[h].ts))
    /\ mu' = Unlock(h)
    /\ Update(h, [hs[h] EXCEPT !.pc = "cbRedirect"])
    /\ UNCHANGED <<PVars, stateToSid, nreq, minted, started, accepted, issued>>

\* handleOAuthCallback: http.Redirect(w, r, nextURL, http.StatusFound)
callbackRedirect ==
  \E h \in Handlers :
    /\ hs[h].pc = "cbRedirect"
    /\ Update(h, Done(hs[h], <<Redirect(nextURL(hs[h].sess), EmptyStr)>>))
    /\ UNCHANGED <<PVars, sessions, stateToSid, mu, nreq, minted, started, accepted, issued>>

NextProxy ==
  \/ ProtectedRequest \/ StartRequest \/ CallbackArrives \/ MuLock
  \/ ensureAuthGetSession \/ ensureAuthSetSession \/ nextGetSession
  \/ handleToken \/ proxyRequestToken \/ proxyRequestForward
  \/ handleOAuthStart \/ callbackHandleAuthCode \/ callbackLookup
  \/ callbackGetSession \/ callbackSetSession \/ callbackRedirect

SpecProxy == InitProxy /\ [][NextProxy]_vars

(***************************************************************************)
(* RandString called with a length, a random source and a read outcome.    *)
(***************************************************************************)
\* every other part of the program is at rest
OthersIdle ==
  /\ FlowIdle
  /\ call = NoCall
  /\ TokIdle
  /\ CacheIdle
  /\ ProxyInit
OtherVars == <<flowVars, call, tokVars, cacheVars, proxyVars>>

InitRand ==
  /\ OthersIdle
  /\ fcall \in [made : {FALSE}, fn : {"RandString"}, length : 0 .. MaxLength,
                 src : RandSources, readOK : BOOLEAN]

CallRandString ==
  /\ fcall.fn = "RandString" /\ ~fcall.made
  /\ fcall' = [fcall EXCEPT !.made = TRUE] @@
                [res |-> RandString(fcall.src, fcall.length, fcall.readOK)]
  /\ UNCHANGED OtherVars

NextRand == CallRandString

SpecRand == InitRand /\ [][NextRand]_vars

(***************************************************************************)
(* The `auth login` command: NewFirebaseFlowServer, then Run of the        *)
(* FirebaseFlowServer, whose Run has the steps of the loopback flow        *)
(* servers above.  Its router registers the assets, /healthz and the       *)
(* NotFoundHandler: no handler ever sends on the completion channel.       *)
(***************************************************************************)
NewFirebaseFlowServer == [err |-> NilErr]

\* the closure of the command: `flow.Run(); return nil`
LoginClosure(newErr, runRet) == IF newErr # NilErr THEN newErr ELSE NilErr

\* `if err != nil { fmt.Printf("Error: %+v", err); os.Exit(1) }`
LoginExit(err) ==
  IF err # NilErr THEN [printed |-> err, code |-> 1]
  ELSE [printed |-> NilErr, code |-> 0]

LoginCommand(step, out) ==
  [made |-> step = "exited", fn |-> "login", step |-> step,
   printed |-> out.printed, code |-> out.code]

InitLogin ==
  /\ mode = "firebase"
  /\ pc = "new"
  /\ srv = "unset"
  /\ polls = 0
  /\ c = <<>>
  /\ sendq = <<>>
  /\ handling = 0
  /\ rcv = NoRcv
  /\ ret = NoRet
  /\ replay = NoReplay
  /\ budget = MaxCallbacks
  /\ recvCount = 0
  /\ sentEarly = FALSE
  /\ shutdownCalled = FALSE
  /\ call = NoCall /\ TokIdle /\ CacheIdle /\ ProxyInit
  /\ fcall = LoginCommand("new", LoginExit(NilErr))

\* the command creates the server and calls flow.Run()
LoginNew ==
  /\ fcall.step = "new"
  /\ pc = "new"
  /\ LET err == LoginClosure(NewFirebaseFlowServer.err, NoRet)
     IN  IF NewFirebaseFlowServer.err # NilErr
           THEN fcall' = LoginCommand("exited", LoginExit(err)) /\ UNCHANGED pc
           ELSE fcall' = LoginCommand("run", LoginExit(NilErr)) /\ pc' = "start"
  /\ UNCHANGED <<mode, srv, polls, c, sendq, handling, rcv, ret, budget, replay,
                 recvCount, sentEarly, shutdownCalled, call, tokVars, cacheVars, proxyVars>>

\* a request the router has no route for: the NotFoundHandler answers 404
NotFoundHandler ==
  /\ handling > 0
  /\ handling' = handling - 1
  /\ UNCHANGED <<mode, pc, srv, polls, c, sendq, rcv, ret, budget, replay,
                 recvCount, sentEarly, shutdownCalled, call, tokVars, cacheVars,
                 proxyVars, fcall>>

\* Run has returned: the closure returns nil and the command ends
LoginReturn ==
  /\ fcall.step = "run"
  /\ pc = "done"
  /\ ret.returned
  /\ fcall' = LoginCommand("exited", LoginExit(LoginClosure(NilErr, ret)))
  /\ UNCHANGED <<flowVars, call, tokVars, cacheVars, proxyVars>>

NextLogin ==
  \/ LoginNew
  \/ RunStart
  \/ startAndBlock
  \/ waitForReadyOK
  \/ waitForReadyRetry
  \/ waitForReadyTimeout
  \/ RunOpenBrowser
  \/ RunSelectBlock
  \/ RunSelectTimeout
  \/ RunShutdown
  \/ RunShutdownReturn
  \/ AcceptCallback
  \/ NotFoundHandler
  \/ LoginReturn

SpecLogin == InitLogin /\ [][NextLogin]_vars

(***************************************************************************)
(* iap.GetGCPBackendFromIngress.  Names and keys are sequences of          *)
(* characters; a compiled expression is the sequence of its tokens, ".*"   *)
(* or a literal character.                                                 *)
(***************************************************************************)
\* namespaces and service names, after healthapp, server and server2 of the test
Namespaces == {<<"h">>, <<"g">>, <<"k", "-", "h">>}
ServiceNames == {<<"s">>, <<"s", "2">>, <<"8">>}
\* keys of the backends annotation, after k8s1-9202d8d9-healthapp-server-8080-f62d8d54
BackendKeys ==
  { <<"k", "-", "h", "-", "s", "-", "8">>,
    <<"k", "-", "h", "-", "s", "2", "-", "8">>,
    <<"k", "-", "g", "-", "s", "-", "8">>,
    <<"k", "-", "h", "-", "s">>,
    <<"h", "-", "s", "-", "8">>,
    <<"-", "h", "-", "s", "-">>,
    <<"j", "-", "h", "-", "s", "-", "8", "-", "h", "-", "s", "2", "-">>,
    <<>> }
\* what the annotation holds: nothing, text that is no JSON, JSON that is no
\* string map, or a string map with the given keys
NoAnnotation == [kind |-> "missing"]
Annotations ==
  {NoAnnotation, [kind |-> "syntax error"], [kind |-> "array"],
   [kind |-> "number value"], [kind |-> "null"]}
  \cup {[kind |-> "string map", keys |-> ks] :
          ks \in {x \in SUBSET BackendKeys : Cardinality(x) <= MaxKeys}}

\* json.Unmarshal([]byte(backendsJSON), &backends) into the empty map
UnmarshalStringMap(doc) ==
  IF doc.kind = "string map" THEN [keys |-> doc.keys, err |-> NilErr]
  ELSE IF doc.kind = "null" THEN [keys |-> {}, err |-> NilErr]
  ELSE [keys |-> {}, err |-> "Could not unmarshal"]

BackendRegexpNoDash(namespace, serviceName) ==
  <<".*", "-">> \o namespace \o <<"-">> \o serviceName \o <<".*">>

\* regexp.Compile(fmt.Sprintf(".*-%v-%v-.*", namespace, serviceName))
BackendRegexp(namespace, serviceName) ==
  <<".*", "-">> \o namespace \o <<"-">> \o serviceName \o <<"-", ".*">>

\* the expression from token i on matches s from position j on
RECURSIVE MatchHere(_, _, _, _)
MatchHere(re, i, s, j) ==
  IF i > Len(re) THEN TRUE
  ELSE IF re[i] = ".*"
    THEN \E j2 \in j .. Len(s) + 1 : MatchHere(re, i + 1, s, j2)
  ELSE j <= Len(s) /\ s[j] = re[i] /\ MatchHere(re, i + 1, s, j + 1)

\* re.MatchString(k): the expression matches somewhere in k
MatchString(re, s) == \E j \in 1 .. Len(s) + 1 : MatchHere(re, 1, s, j)

GetGCPBackendFromIngress(annotation, namespace, serviceName) ==
  IF annotation = NoAnnotation
    THEN [backend |-> <<>>, err |-> "missing annotation"]
  ELSE LET backends == UnmarshalStringMap(annotation)
           re == BackendRegexp(namespace, serviceName)
           matches == {k \in backends.keys : MatchString(re, k)}
       IN  IF backends.err # NilErr
             THEN [backend |-> <<>>, err |-> backends.err]
           ELSE IF Cardinality(matches) > 1
             THEN [backend |-> <<>>, err |-> "Multiple backends matched"]
           ELSE IF Cardinality(matches) = 0
             THEN [backend |-> <<>>, err |-> "No backends matched"]
           ELSE [backend |-> CHOOSE k \in matches : TRUE, err |-> NilErr]

InitIngress ==
  /\ OthersIdle
  /\ fcall \in [made : {FALSE}, fn : {"GetGCPBackendFromIngress"},
                 annotation : Annotations, namespace : Namespaces,
                 serviceName : ServiceNames]

CallGetGCPBackendFromIngress ==
  /\ fcall.fn = "GetGCPBackendFromIngress" /\ ~fcall.made
  /\ fcall' = [fcall EXCEPT !.made = TRUE] @@
                [res |-> GetGCPBackendFromIngress(fcall.annotation, fcall.namespace,
                                                  fcall.serviceName)]
  /\ UNCHANGED OtherVars

NextIngress == CallGetGCPBackendFromIngress

SpecIngress == InitIngress /\ [][NextIngress]_vars

(***************************************************************************)
(* helpers.IsTypeError and NewTypeErrorMatcher.  An error is the chain of  *)
(* the dynamic types that errors.Unwrap walks through, outermost first;    *)
(* the nil error is the empty chain.                                       *)
(***************************************************************************)
\* *SomeError of the test, *json.SyntaxError, *withStack of errors.Wrap, and
\* a second error type declared, like SomeError, as an empty struct
ErrorTypes == {"SomeError", "SyntaxError", "withStack", "EmptyError"}
\* the underlying type of the struct each pointer type points to
Underlying(type) ==
  CASE type = "SomeError" -> "struct{}"
    [] type = "EmptyError" -> "struct{}"
    [] type = "SyntaxError" -> "struct{msg string; Offset int64}"
    [] type = "withStack" -> "struct{error; *stack}"
NilChain == <<>>
ErrorChains == UNION {[1 .. n -> ErrorTypes] : n \in 0 .. MaxChain}
Targets == {NilChain} \cup {<<t>> : t \in ErrorTypes}

\* actual.ConvertibleTo(expected) on two struct types
ConvertibleTo(actual, expected) == Underlying(actual) = Underlying(expected)

\* the for loop of IsTypeError; reflect.Indirect(reflect.ValueOf(nil)) is the
\* zero Value, and Type() of the zero Value panics
RECURSIVE IsTypeErrorLoop(_, _)
IsTypeErrorLoop(err, expected) ==
  IF err = NilChain THEN [val |-> FALSE, panic |-> TRUE]
  ELSE IF ConvertibleTo(Head(err), expected) THEN [val |-> TRUE, panic |-> FALSE]
  ELSE IF Tail(err) = NilChain THEN [val |-> FALSE, panic |-> FALSE]
  ELSE IsTypeErrorLoop(Tail(err), expected)

IsTypeError(err, target) ==
  IF target = NilChain THEN [val |-> err = target, panic |-> FALSE]
  ELSE IsTypeErrorLoop(err, Head(target))

\* the function NewTypeErrorMatcher(target) returns, applied to err: "" on a
\* match, else a message
NewTypeErrorMatcher(target, err) ==
  LET r == IsTypeError(err, target)
  IN  IF r.panic THEN [msg |-> "", panic |-> TRUE]
      ELSE IF r.val THEN [msg |-> "", panic |-> FALSE]
      ELSE [msg |-> "Want error of type", panic |-> FALSE]

InitIsTypeError ==
  /\ OthersIdle
  /\ fcall \in [made : {FALSE}, fn : {"IsTypeError"}, err : ErrorChains,
                 target : Targets]

CallIsTypeError ==
  /\ fcall.fn = "IsTypeError" /\ ~fcall.made
  /\ fcall' = [fcall EXCEPT !.made = TRUE] @@
                [res |-> IsTypeError(fcall.err, fcall.target),
                 match |-> NewTypeErrorMatcher(fcall.target, fcall.err)]
  /\ UNCHANGED OtherVars

NextIsTypeError == CallIsTypeError

SpecIsTypeError == InitIsTypeError /\ [][NextIsTypeError]_vars

(***************************************************************************)
(* gcs.GcsHelper.Exists and ObjectExists.  An error is the sequence of the *)
(* words of its message; the nil error is the empty sequence.              *)
(***************************************************************************)
NoErr == <<>>
ErrBucketNotExist == <<"storage:", "bucket", "doesn't", "exist">>
ErrObjectNotExist == <<"storage:", "object", "doesn't", "exist">>
ErrForbidden == <<"googleapi:", "Error", "403:", "Forbidden">>
ErrDeadline == <<"context", "deadline", "exceeded">>
ErrParse == <<"not", "a", "GCS", "URI">>
\* what the store holds for the URI: no bucket, the bucket without the
\* object, the bucket with the object
Stores == { [bucket |-> FALSE, object |-> FALSE], [bucket |-> TRUE, object |-> FALSE],
            [bucket |-> TRUE, object |-> TRUE] }
\* what gets in the way of a request: nothing, missing permission, a timeout
Faults == {NoErr, ErrForbidden, ErrDeadline}

\* b.Attrs(h.Ctx)
BucketAttrs(store, fault) ==
  IF fault # NoErr THEN fault
  ELSE IF ~store.bucket THEN ErrBucketNotExist
  ELSE NoErr

\* o.Attrs(ctx)
ObjectAttrs(store, fault) ==
  IF fault # NoErr THEN fault
  ELSE IF ~store.bucket THEN ErrBucketNotExist
  ELSE IF ~store.object THEN ErrObjectNotExist
  ELSE NoErr

\* regexp.MatchString(".*doesn't.*exist.*", err.Error())
DoesntExist(err) == MatchString(<<".*", "doesn't", ".*", "exist", ".*">>, err)

ObjectExists(store, fault) ==
  LET err == ObjectAttrs(store, fault)
  IN  IF err = NoErr THEN TRUE
      ELSE IF DoesntExist(err) THEN FALSE
      ELSE TRUE

Exists(parseOK, store, bucketFault, objectFault, randVal) ==
  IF ~parseOK THEN [val |-> randVal, err |-> ErrParse]
  ELSE LET err == BucketAttrs(store, bucketFault)
       IN  IF err # NoErr
             THEN IF DoesntExist(err) THEN [val |-> TRUE, err |-> NoErr]
                  ELSE [val |-> randVal, err |-> err]
             ELSE [val |-> ObjectExists(store, objectFault), err |-> NoErr]

InitExists ==
  /\ OthersIdle
  /\ fcall \in [made : {FALSE}, fn : {"Exists"}, parseOK : BOOLEAN, store : Stores,
                 bucketFault : Faults, objectFault : Faults, randVal : BOOLEAN]

CallExists ==
  /\ fcall.fn = "Exists" /\ ~fcall.made
  /\ fcall' = [fcall EXCEPT !.made = TRUE] @@
                [res |-> Exists(fcall.parseOK, fcall.store, fcall.bucketFault,
                                fcall.objectFault, fcall.randVal)]
  /\ UNCHANGED OtherVars

NextExists == CallExists

SpecExists == InitExists /\ [][NextExists]_vars

(***************************************************************************)
(* The set-iam-policy command on a ServiceRef without an ingress, and      *)
(* iap.GetGCPBackendFromService.                                           *)
(***************************************************************************)
NegNames == {"n1", "n2"}
BackendServiceNames == {"b1", "b2"}
\* a backend of a backend service: the last two segments of its group URL
Groups ==
  [kind : {"networkEndpointGroups"}, name : NegNames]
  \cup {[kind |-> "instanceGroups", name |-> "ig"]}
SeqsUpTo(S, n) == UNION {[1 .. k -> S] : k \in 0 .. n}
BackendServices == [name : BackendServiceNames, backends : SeqsUpTo(Groups, MaxBackends)]
\* what fails on the way: nothing, or one of the calls before the list is read
ServiceFaults ==
  {"none", "service name cannot be empty", "namespace cannot be empty",
   "Failed to get service", "missing annotation", "Could not unmarshal", "list failed"}

\* the body of `for _, b := range svc.Backends`, on the map and the error so far
UseBackend(acc, svcName, b) ==
  IF acc.err # NilErr THEN acc
  ELSE IF b.kind # "networkEndpointGroups" THEN acc
  ELSE IF b.name \notin DOMAIN acc.negs THEN acc
  ELSE IF acc.negs[b.name] # EmptyStr
    THEN [acc EXCEPT !.err = "Found multiple backends for neg"]
  ELSE [acc EXCEPT !.negs[b.name] = svcName]

RECURSIVE UseBackends(_, _, _)
UseBackends(acc, svcName, backends) ==
  IF backends = <<>> THEN acc
  ELSE UseBackends(UseBackend(acc, svcName, Head(backends)), svcName, Tail(backends))

\* the loop over iter.Next()
RECURSIVE UseServices(_, _)
UseServices(acc, svcs) ==
  IF svcs = <<>> THEN acc
  ELSE UseServices(UseBackends(acc, Head(svcs).name, Head(svcs).backends), Tail(svcs))

NoNegs == [n \in {} |-> EmptyStr]

\* negs: the NEG names of the service's neg-status annotation
GetGCPBackendFromService(fault, negs, svcs) ==
  IF fault \in {"service name cannot be empty", "namespace cannot be empty"}
    THEN [negs |-> NoNegs, err |-> fault]
  ELSE IF fault \in {"Failed to get service", "missing annotation", "Could not unmarshal"}
    THEN [negs |-> NoNegs, err |-> fault]
  ELSE LET negToBackend == [n \in negs |-> EmptyStr]
       IN  IF fault = "list failed" THEN [negs |-> negToBackend, err |-> fault]
           ELSE UseServices([negs |-> negToBackend, err |-> NilErr], svcs)

\* fmt.Sprintf("projects/%v/iap_web/compute/services/%v", project, backend)
BackendIAPName(project, backend) ==
  <<"projects", project, "iap_web", "compute", "services", backend>>

NotSet(err) == [called |-> FALSE, resource |-> <<>>, err |-> err]

\* the closure of the command from the ServiceRef on, with ingressName == ""
SetIAMPolicy(project, fault, negs, svcs) ==
  LET r == GetGCPBackendFromService(fault, negs, svcs)
  IN  IF r.err # NilErr THEN NotSet(r.err)
      ELSE IF Cardinality(DOMAIN r.negs) = 0 THEN NotSet("No NEG found for service")
      ELSE IF Cardinality(DOMAIN r.negs) > 1 THEN NotSet("Multiple NEG found for service")
      ELSE LET backend == r.negs[CHOOSE n \in DOMAIN r.negs : TRUE]
           IN  [called |-> TRUE, resource |-> BackendIAPName(project, backend),
                err |-> NilErr]

InitSetIAMPolicy ==
  /\ OthersIdle
  /\ fcall \in [made : {FALSE}, fn : {"SetIAMPolicy"}, project : {"p"},
                 fault : ServiceFaults, negs : SUBSET NegNames,
                 svcs : SeqsUpTo(BackendServices, MaxServices)]

CallSetIAMPolicy ==
  /\ fcall.fn = "SetIAMPolicy" /\ ~fcall.made
  /\ fcall' = [fcall EXCEPT !.made = TRUE] @@
                [res |-> SetIAMPolicy(fcall.project, fcall.fault, fcall.negs, fcall.svcs)]
  /\ UNCHANGED OtherVars

NextSetIAMPolicy == CallSetIAMPolicy

SpecSetIAMPolicy == InitSetIAMPolicy /\ [][NextSetIAMPolicy]_vars

(***************************************************************************)
(* Properties.                                                             *)
(***************************************************************************)
CookiePresent == call.req.stateCookie # Absent
StateEqual == CookiePresent /\ call.req.stateParam = call.req.stateCookie

\* C1: for every callback request whose state cookie is present and whose
\* state parameter differs from the cookie, HandleAuthCode returns a non-nil
\* error and no TokenSource.
C1_StateMismatchReturnsError ==
  (call.made /\ CookiePresent /\ ~StateEqual)
    => (call.res.err # NilErr /\ call.res.ts = NilTS)

\* the endpoint accepted the code and, in OIDC mode, the id_token verifies and
\* carries the nonce of the nonce cookie
CodeAccepted ==
  /\ ~call.exch.err
  /\ call.mode = "oidc" =>
       /\ call.exch.tok.idtok.present
       /\ call.exch.tok.idtok.sig
       /\ call.now < call.exch.tok.idtok.exp
       /\ call.exch.tok.idtok.nonce = call.req.nonceCookie

\* C2: when the state parameter equals the state cookie and the token endpoint
\* accepts the code (OIDC: with an id_token that verifies and whose nonce is the
\* nonce cookie), HandleAuthCode returns a TokenSource, a nil error and the
\* original state value.
C2_ValidCallbackYieldsTokenSource ==
  (call.made /\ StateEqual /\ CodeAccepted)
    => /\ call.res.ts # NilTS
       /\ call.res.ts.tok = call.exch.tok
       /\ call.res.err = NilErr
       /\ call.res.state = call.req.stateParam

C2_Witness ==
  /\ call.made /\ call.mode = "oidc" /\ StateEqual /\ CodeAccepted
  /\ call.res.ts # NilTS

\* the handler exchanged the code and the identity token it got verifies
IDTokenVerified ==
  /\ call.mode = "oidc"
  /\ call.res.exchanged
  /\ ~call.exch.err
  /\ call.exch.tok.idtok.present
  /\ call.exch.tok.idtok.sig
  /\ call.now < call.exch.tok.idtok.exp

\* C3: in OIDC mode, whenever the nonce claim of the verified identity token
\* differs from the nonce cookie (or the cookie is absent), HandleAuthCode
\* returns an error and no TokenSource.
C3_NonceMismatchFails ==
  (call.made /\ IDTokenVerified
     /\ call.exch.tok.idtok.nonce # call.req.nonceCookie)
    => (call.res.err # NilErr /\ call.res.ts = NilTS)

C3_Witness ==
  /\ call.made /\ IDTokenVerified
  /\ call.req.nonceCookie # Absent
  /\ call.exch.tok.idtok.nonce # call.req.nonceCookie
  /\ call.res.status = StatusBadRequest

\* C4: the code is sent to the token endpoint only when the state cookie is
\* present and equals the state parameter; otherwise the handler answers 400,
\* returns no TokenSource and attempts no exchange.
C4_ExchangeOnlyAfterStateCheck ==
  call.made =>
    /\ call.res.exchanged => StateEqual
    /\ ~StateEqual => /\ call.res.status = StatusBadRequest
                      /\ ~call.res.exchanged
                      /\ call.res.ts = NilTS

C4_Witness ==
  /\ call.made /\ CookiePresent /\ ~StateEqual
  /\ call.res.status = StatusBadRequest /\ ~call.res.exchanged

\* Run has returned
RunReturned == pc = "done" /\ ret.returned

\* C5: Run returns the token source with a nil error exactly when the value it
\* received came from a callback whose HandleAuthCode succeeded (returned a
\* TokenSource); a wrapped error when the handler reported a failure; a timeout
\* error when the completion deadline elapsed first.
C5_RunPropagatesOutcome ==
  (RunReturned /\ rcv # NoRcv) =>
    /\ ret.err = NilErr <=> (rcv.kind = "value" /\ rcv.v.ts # NilTS)
    /\ ret.err = NilErr => ret.ts = rcv.v.ts
    /\ (rcv.kind = "value" /\ rcv.v.ts = NilTS) => ret.err = ErrWrapped
    /\ rcv = TimerRcv => ret.err = ErrFlowTimeout

IsPrefix(s, t) == Len(s) <= Len(t) /\ SubSeq(t, 1, Len(s)) = s

\* C6: per flow, Run is the only receiver on the completion channel and
\* receives at most one value, exactly one when a value was sent before the
\* completion deadline; a value enqueued later is never received.
C6_SingleReceive ==
  /\ [](/\ recvCount <= 1
        /\ rcv # NoRcv => (recvCount = 1 <=> sentEarly)
        /\ rcv = TimerRcv => recvCount = 0)
  /\ [][/\ recvCount' # recvCount =>
             (pc \in {"select", "blocked"} /\ pc' = "shutdown" /\ recvCount = 0)
        /\ rcv # NoRcv => (IsPrefix(c, c') /\ IsPrefix(sendq, sendq'))]_vars

C6_Witness ==
  RunReturned /\ recvCount = 1 /\ Len(c) >= 1

\* C7: once the server has become ready, every return of Run (token source,
\* callback error, completion deadline) is preceded by a Shutdown of the HTTP
\* server, after which the listener accepts no connections.
C7_ShutdownBeforeReturn ==
  (RunReturned /\ ret.err # ErrReadyTimeout)
    => (shutdownCalled /\ srv = "closed")

C7_Witness ==
  RunReturned /\ rcv = TimerRcv /\ ret.err = ErrFlowTimeout /\ srv = "closed"

\* C8: if the health endpoint never answers OK before the readiness deadline,
\* Run returns a timeout error and the HTTP server started on the background
\* path is shut down before Run returns.
C8_ReadyTimeoutShutsDown ==
  (RunReturned /\ ret.err = ErrReadyTimeout) => srv # "listening"

\* C9: Run always terminates: no callback handler stays parked on its send to
\* the completion channel while the graceful shutdown waits for it.
C9_NoSenderBlocksShutdown ==
  ~(pc = "shutdownWait" /\ sendq # <<>>)

\* the underlying token carries an id_token the verifier accepts
UnderlyingVerifies ==
  /\ ~tcall.out.err
  /\ tcall.out.tok.idtok.present
  /\ tcall.out.tok.idtok.sig
  /\ tcall.now < tcall.out.tok.idtok.exp

\* C10: Token() and IDToken() return a value only when the token the underlying
\* source supplies carries an id_token the verifier accepts; otherwise both
\* return an error and no token, on every call.
C10_OnlyVerifiedTokens ==
  tcall.made =>
    /\ tcall.res.err = NilErr => UnderlyingVerifies
    /\ ~UnderlyingVerifies => (tcall.res.err # NilErr /\ tcall.res.val = NoValue)
    /\ tcall.res.val # NoValue =>
         /\ tcall.res.err = NilErr
         /\ tcall.op = "Token" => tcall.res.val.AccessToken = tcall.out.tok.idtok
         /\ tcall.op = "IDToken" => tcall.res.val.claims = tcall.out.tok.idtok

C10_Witness ==
  /\ tcall.made /\ tcall.op = "Token"
  /\ ~tcall.out.err /\ tcall.out.tok # tcall.held
  /\ tcall.out.tok.idtok.present /\ ~UnderlyingVerifies
  /\ tcall.res.err # NilErr

\* C11: Token() returns a token whose bearer value is the raw id_token of the
\* underlying token and whose expiry is the expiry of the verified identity
\* token, so two successive successful Token() calls over the same underlying
\* token return identical bearer tokens.
C11_TokenIsIDTokenAndRepeatable ==
  /\ [](  (tcall.made /\ tcall.op = "Token" /\ tcall.res.err = NilErr)
          => /\ tcall.res.val.AccessToken = tcall.out.tok.idtok
             /\ tcall.res.val.Expiry = tcall.out.tok.idtok.exp )
  /\ [][ ( /\ tcall.made /\ tcall.op = "Token" /\ tcall.res.err = NilErr
           /\ tcall'.made /\ tcall'.op = "Token" /\ tcall'.res.err = NilErr
           /\ tcall'.out.err = FALSE /\ tcall'.out.tok = tcall.out.tok )
         => tcall'.res.val = tcall.res.val ]_vars

\* a second successful Token() call, later, over the token the source held
C11_Witness ==
  /\ tcall.made /\ tcall.op = "Token" /\ tcall.res.err = NilErr
  /\ ~tcall.out.err /\ tcall.out.tok = tcall.held
  /\ tcall.now > 0
  /\ tcall.res.val.AccessToken = tcall.held.idtok

\* C12: for every token t, Save(t) that returns nil followed by GetToken() on
\* the same cache file returns a token with the access token, the refresh
\* token and the expiry instant of t, whatever an earlier Save had written.
C12_SaveThenGetTokenRoundTrip ==
  (cop.op = "GetToken" /\ cop.saved # NilToken)
    => /\ cop.err = NilErr
       /\ cop.tok # NilToken
       /\ cop.tok.access = cop.saved.access
       /\ cop.tok.refresh = cop.saved.refresh
       /\ cop.tok.expiry.instant = cop.saved.expiry.instant

\* GetToken after a Save that replaced another token's document
C12_Witness ==
  /\ cop.op = "GetToken" /\ cop.saved # NilToken /\ cop.replaced
  /\ cop.saved.refresh = EmptyStr /\ cop.saved.expiry.mono
  /\ cop.tok.access = cop.saved.access

\* C13: GetTokenSource runs the wrapped helper's flow exactly when the cache
\* returns no token and no error: a cached token is used without the flow, a
\* read error is returned without the flow, and the call after a flow whose
\* token was saved does not run the flow.
C13_FlowOnlyOnEmptyCache ==
  cop.op = "GetTokenSource" =>
    /\ cop.ranFlow <=> (cop.read.err = NilErr /\ cop.read.tok = NilToken)
    /\ (cop.read.err = NilErr /\ cop.read.tok # NilToken)
         => (~cop.ranFlow /\ cop.err = NilErr /\ cop.ts = ConfigTS(cop.read.tok))
    /\ cop.read.err # NilErr
         => (~cop.ranFlow /\ cop.err = cop.read.err /\ cop.ts = NilTS)
    /\ cop.afterSavedFlow => ~cop.ranFlow

C13_Witness ==
  /\ cop.op = "GetTokenSource" /\ cop.afterSavedFlow
  /\ ~cop.ranFlow /\ cop.err = NilErr

\* no two Set-Cookie responses carry the same session identifier
DistinctIssued ==
  \A i, j \in 1 .. Len(issued) : i # j => issued[i] # issued[j]

\* a request without session cookie is answered by a redirect to the
\* login-start endpoint that sets a session identifier
CookielessRedirected ==
  \A h \in Handlers :
    (hs[h].pc = "done" /\ hs[h].route \in {"token", "proxy"} /\ hs[h].cookie = Absent)
      => /\ hs[h].sid # EmptyStr
         /\ hs[h].resp = <<Redirect(oauthStart, hs[h].sid)>>

\* the step changes a stored session only as handler h's setSession in
\* handleOAuthCallback, on the identifier recorded for h's state
ChangedByCallbackOf(h, k) ==
  /\ hs[h].pc = "cbSet" /\ hs'[h].pc = "cbRedirect"
  /\ hs[h].state \in DOMAIN stateToSid
  /\ stateToSid[hs[h].state] = k
  /\ sessions'[k].Ts = hs[h].ts

C15_MapAccessUnderLock ==
  /\ [](\A h \in Handlers : hs[h].pc \in AccessPcs => mu = h)
  /\ [][ (sessions' # sessions \/ stateToSid' # stateToSid)
           => (mu \in Handlers /\ hs[mu].pc \in AccessPcs /\ hs'[mu].pc # hs[mu].pc) ]_vars

\* one handler is inside a map access while the other waits for the mutex
C15_Witness ==
  \E h, g \in Handlers :
    /\ h # g
    /\ hs[h].pc \in AccessPcs /\ mu = h
    /\ hs[g].pc \in LockPcs

\* C16: no handler holds p.mu while it performs an outbound call (the code
\* exchange of HandleAuthCode, Token(), IDToken(), the forward upstream): a
\* handler holds the mutex only at an access to one of the two maps.
C16_NoLockAcrossNetworkCalls ==
  \A h \in Handlers :
    /\ hs[h].pc \in NetworkPcs => mu # h
    /\ mu = h => hs[h].pc \in AccessPcs

\* a handler is at an outbound call while the other one holds the mutex
C16_Witness ==
  \E h, g \in Handlers :
    /\ h # g
    /\ hs[h].pc \in NetworkPcs
    /\ mu = g
    /\ \E d \in Handlers : hs[d].pc \in {"prForward", "prToken"}

\* handler h serves a callback for which HandleAuthCode returned a TokenSource
\* and whose state the start endpoint recorded
CallbackSucceeded(h) ==
  /\ hs[h].route = "callback"
  /\ hs[h].ts # NilTS
  /\ hs[h].state \in DOMAIN stateToSid

\* C17: when a callback completes successfully for state s, the TokenSource is
\* in the session whose identifier the start endpoint recorded for s by the
\* time the redirect is issued; the redirect goes to that session's NextURL,
\* or to the token-introspection endpoint when NextURL is empty; and a
\* TokenSource once stored stays, so the request that follows finds it.
C17_TokenSourceStoredBeforeRedirect ==
  /\ [](\A h \in Handlers :
          (CallbackSucceeded(h) /\ hs[h].pc \in {"cbRedirect", "done"}) =>
            LET k == stateToSid[hs[h].state]
            IN  /\ hs[h].sid = k
                /\ k \in DOMAIN sessions
                /\ sessions[k].Ts # NilTS
                /\ (hs[h].pc = "done" /\ hs[h].ok) =>
                     hs[h].resp =
                       <<Redirect(IF sessions[k].NextURL = EmptyStr THEN idTokenPath
                                  ELSE sessions[k].NextURL, EmptyStr)>>)
  /\ [][ \A k \in DOMAIN sessions :
           sessions[k].Ts # NilTS => (k \in DOMAIN sessions' /\ sessions'[k].Ts # NilTS) ]_vars

\* a callback stored its TokenSource in the session a protected request had
\* created and redirected the browser to the URL first asked for
C17_Witness ==
  \E h \in Handlers :
    /\ CallbackSucceeded(h) /\ hs[h].pc = "done" /\ hs[h].ok
    /\ hs[h].resp = <<Redirect(appPath, EmptyStr)>>
    /\ sessions[hs[h].sid].Ts = hs[h].ts

Protected(h) == hs[h].route \in {"token", "proxy"}

ForwardedUpstream(h) == \E i \in 1 .. Len(hs[h].resp) : hs[h].resp[i].forwarded

\* C19: the proxy forwards a request upstream only when it carries the cookie
\* of a stored session whose TokenSource is set and whose Token() call
\* succeeded, and the forwarded request carries that bearer token in both
\* authorization headers; in every other case nothing is forwarded.
C19_ForwardOnlyWithToken ==
  \A h \in Handlers :
    (hs[h].pc = "prForward" \/ ForwardedUpstream(h)) =>
      /\ hs[h].route = "proxy"
      /\ hs[h].cookie \in DOMAIN sessions
      /\ sessions[hs[h].cookie].Ts # NilTS
      /\ hs[h].sess.Ts # NilTS
      /\ hs[h].tokres.err = NilErr
      /\ hs[h].tokres.val.AccessToken = hs[h].sess.Ts.tok.idtok
      /\ ForwardedUpstream(h) =>
           /\ hs[h].pc = "done"
           /\ hs[h].resp =
                <<Forwarded([jwt |-> hs[h].tokres.val.AccessToken,
                             authorization |-> hs[h].tokres.val.AccessToken])>>

\* a request of a logged-in session went upstream with the session's id token
C19_Witness ==
  \E h \in Handlers :
    /\ ForwardedUpstream(h)
    /\ hs[h].resp[1].headers.authorization = sessions[hs[h].cookie].Ts.tok.idtok
    /\ hs[h].resp[1].headers.authorization.present

\* C20: a state generated by one invocation of the start endpoint is accepted
\* by the callback endpoint at most once: a later callback presenting the same
\* state cookie and state parameter is rejected.
C20_StateAcceptedAtMostOnce ==
  \A h \in Handlers :
    ( /\ hs[h].route = "callback"
      /\ hs[h].pc # "cbExchange"
      /\ hs[h].req.stateCookie \in {StateSeq[n] : n \in 1 .. started}
      /\ hs[h].req.stateParam = hs[h].req.stateCookie
      /\ hs[h].replay )
    => hs[h].ts = NilTS

RandStringCalled == fcall.fn = "RandString" /\ fcall.made
\* the call that mints a session identifier, with the random source readable
SidMinted == RandStringCalled /\ fcall.length = SidLength /\ fcall.res.err = NilErr

\* C21 as stated: the session identifier the proxy mints is derived from at
\* least 24 bytes of random data.
C21_SidFrom24RandomBytes ==
  SidMinted => fcall.res.nBytes >= 24

\* C21 as amended: the session identifier the proxy mints is the 24-character
\* base64url encoding of 18 bytes of random data, all bits of which it keeps.
C21_SidFrom18RandomBytes ==
  SidMinted =>
    /\ fcall.res.nBytes = 18
    /\ ~fcall.res.panic
    /\ Len(fcall.res.str) = SidLength
    /\ fcall.res.str = EncodeToString(ReadFull(fcall.src, 18))
    /\ 8 * fcall.res.nBytes = 6 * Len(fcall.res.str)

C21_Witness ==
  SidMinted /\ fcall.src.a = 101 /\ fcall.res.str[1] # fcall.res.str[2]

\* C25: for every length >= 0, RandString(length) returns a string of exactly
\* `length` characters whenever the random source can be read: the bytes it
\* requests encode to at least `length` base64url characters, so the slice
\* [0:length] never panics.
C25_RandStringLength ==
  RandStringCalled =>
    /\ ~fcall.res.panic
    /\ EncodedLen(fcall.res.nBytes) >= fcall.length
    /\ fcall.res.err = NilErr =>
         /\ Len(fcall.res.str) = fcall.length
         /\ \A i \in 1 .. fcall.length : fcall.res.str[i] \in 0 .. 63
    /\ fcall.res.err # NilErr => (~fcall.readOK /\ fcall.res.str = <<>>)

\* a length whose encoding has no character to spare
C25_Witness ==
  /\ RandStringCalled /\ fcall.res.err = NilErr
  /\ fcall.length = 4 /\ fcall.res.nBytes = 3
  /\ Len(fcall.res.str) = 4

\* C27: whenever Run returns a nil error the token source it returns is
\* non-nil, and no callback handler places on the completion channel a value
\* that carries neither an error nor a token source.
C27_NilErrorMeansTokenSource ==
  /\ (RunReturned /\ ret.err = NilErr) => ret.ts # NilTS
  /\ \A i \in 1 .. Len(c) : c[i].err # NilErr \/ c[i].ts # NilTS
  /\ \A i \in 1 .. Len(sendq) : sendq[i].err # NilErr \/ sendq[i].ts # NilTS
  /\ rcv.kind = "value" => (rcv.v.err # NilErr \/ rcv.v.ts # NilTS)


\* handler h serves a callback for which HandleAuthCode returned a nil error:
\* with a TokenSource, or on the state mismatch it reports without an error
ReturnedNilError(h) ==
  /\ hs[h].route = "callback"
  /\ \/ hs[h].pc \in {"cbLookLock", "cbLook", "cbGetLock", "cbGet", "cbSetLock",
                      "cbSet", "cbRedirect"}
     \/ /\ hs[h].pc = "done"
        /\ \/ hs[h].ts # NilTS
           \/ CookieErr(hs[h].req) = NilErr /\ ~StateMatches(hs[h].req)

\* the state HandleAuthCode returned to h has no entry in p.stateToSid
LookupMissed(h) ==
  /\ ReturnedNilError(h)
  /\ hs[h].pc \notin {"cbLookLock", "cbLook"}
  /\ hs[h].state \notin DOMAIN stateToSid

\* C28: when the state returned by HandleAuthCode has no entry in the
\* state-to-session map, handleOAuthCallback sends exactly one response, the
\* 500 "Failed to find session", issues no redirect, and leaves the session
\* map unchanged; no session is ever stored under the empty identifier.
C28_UnknownStateOnly500 ==
  /\ [](\A h \in Handlers :
          (LookupMissed(h) /\ hs[h].pc = "done") =>
            /\ hs[h].resp # <<>>
            /\ hs[h].resp[Len(hs[h].resp)] = Status(StatusInternalServerError)
            /\ \A i \in 1 .. Len(hs[h].resp) : hs[h].resp[i].status # StatusFound
            /\ hs[h].ts # NilTS => Len(hs[h].resp) = 1)
  /\ [](EmptyStr \notin DOMAIN sessions)
  /\ [][ \A h \in Handlers :
           (LookupMissed(h) /\ hs[h].pc = "cbSet") => sessions' = sessions ]_vars


\* handler h served a request to the token-introspection path or to a proxied
\* path with the cookie of a session that exists and has no TokenSource yet
LoginIncomplete(h) ==
  /\ hs[h].route \in {"token", "proxy"}
  /\ hs[h].pc = "done"
  /\ hs[h].ok
  /\ hs[h].sess.Ts = NilTS

\* C29: no proxy handler calls a method on a session's TokenSource while it is
\* nil: a request to the token-introspection path or to a proxied path from a
\* session that exists but whose login has not completed gets an error
\* response and the handler does not crash.
C29_NoNilTokenSourceCall ==
  \A h \in Handlers :
    /\ \A i \in 1 .. Len(hs[h].resp) : hs[h].resp[i].status # Panic
    /\ LoginIncomplete(h) =>
         /\ Len(hs[h].resp) = 1
         /\ hs[h].resp[1].status \in {StatusBadRequest, StatusInternalServerError}


\* the login command has ended
LoginExited == fcall.fn = "login" /\ fcall.step = "exited"

\* C22: whenever the login flow run by the `auth login` command fails or
\* times out (Run returns an error), the command prints the error and the
\* process exits with a non-zero status.
C22_LoginFailureExitsNonZero ==
  (LoginExited /\ ret.returned /\ ret.err # NilErr) =>
    /\ fcall.printed = ret.err
    /\ fcall.code # 0


\* key k contains `-<namespace>-<serviceName>-`
ContainsService(k, namespace, serviceName) ==
  LET lit == <<"-">> \o namespace \o <<"-">> \o serviceName \o <<"-">>
  IN  \E o \in 1 .. Len(k) :
        /\ o + Len(lit) - 1 <= Len(k)
        /\ SubSeq(k, o, o + Len(lit) - 1) = lit

IngressCalled == fcall.fn = "GetGCPBackendFromIngress" /\ fcall.made
\* the keys of the annotation when it is a JSON string map
AnnotationKeys ==
  IF fcall.annotation.kind = "string map" THEN fcall.annotation.keys ELSE {}
MatchingKeys ==
  {k \in AnnotationKeys : ContainsService(k, fcall.namespace, fcall.serviceName)}

IsTypeErrorCalled == fcall.fn = "IsTypeError" /\ fcall.made

\* C24: for every error err (nil included) and every non-nil target,
\* IsTypeError(err, target) terminates and returns true exactly when err, or
\* some error reached by repeatedly unwrapping err, has the type of target,
\* and false otherwise; with a nil target it returns true exactly when err is
\* nil.
C24_IsTypeErrorMatchesChain ==
  IsTypeErrorCalled =>
    /\ ~fcall.res.panic
    /\ fcall.target # NilChain =>
         (fcall.res.val <=>
            \E i \in 1 .. Len(fcall.err) : fcall.err[i] = fcall.target[1])
    /\ fcall.target = NilChain => (fcall.res.val <=> fcall.err = NilChain)


ExistsCalled == fcall.fn = "Exists" /\ fcall.made

\* C26: GcsHelper.Exists returns (true, nil) only when the bucket and the
\* object named by the URI both exist; when the bucket or the object does not
\* exist it does not report the URI as existing.
C26_ExistsOnlyWhenBothExist ==
  (ExistsCalled /\ fcall.res.val /\ fcall.res.err = NoErr) =>
    (fcall.parseOK /\ fcall.store.bucket /\ fcall.store.object)


SetIAMPolicyCalled == fcall.fn = "SetIAMPolicy" /\ fcall.made
\* the names of the backend services that list NEG n among their backends
ServicesOfNeg(n) ==
  { fcall.svcs[i].name : i \in { j \in 1 .. Len(fcall.svcs) :
      \E k \in 1 .. Len(fcall.svcs[j].backends) :
        fcall.svcs[j].backends[k] = [kind |-> "networkEndpointGroups", name |-> n] } }

\* C30: when set-iam-policy resolves a ServiceRef that names no ingress, it
\* calls SetIamPolicy only for a resource whose backend is the non-empty name
\* of the backend service found for the service's single NEG; zero NEGs, more
\* than one NEG, or a NEG referenced by no backend service produce an error
\* and no policy is set.
C30_PolicyOnlyOnResolvedBackend ==
  SetIAMPolicyCalled =>
    /\ fcall.res.called =>
         /\ Cardinality(fcall.negs) = 1
         /\ \E n \in fcall.negs : \E b \in ServicesOfNeg(n) :
              /\ b # EmptyStr
              /\ fcall.res.resource = BackendIAPName(fcall.project, b)
    /\ (\/ Cardinality(fcall.negs) # 1
        \/ \A n \in fcall.negs : ServicesOfNeg(n) = {})
       => (~fcall.res.called /\ fcall.res.err # NilErr)


====
